---------------------------- MODULE Spec2Model ----------------------------
(***************************************************************************)
(* A model of the C++ FFI of the style crate (src/style/ffi/mod.rs): the   *)
(* boundary functions, the element adapter FFIElementWrapper and the host  *)
(* document they call back into.                                           *)
(*                                                                         *)
(* Numbers.  An f32 colour channel c is the integer c * Unit, so that the  *)
(* channels the model uses (k/255, 0.5, 0.375, 0.75) are exact.  An f32    *)
(* calc value v is the integer v * ValScale.  A u32 is the pair of its two  *)
(* 16-bit halves.                                                          *)
(*                                                                         *)
(* Texts.  A selector or calc text is the sequence of its lexical tokens;  *)
(* a colour text is the tuple of a keyword, or of a functional notation's   *)
(* name and its numeric arguments.                                         *)
(***************************************************************************)
EXTENDS Integers, Sequences, FiniteSets, TLC

VARIABLES
    pc,      \* "idle": the host is between calls; "returned": a call has returned
    call,    \* the last boundary call: its function, arguments, outcome and result record
    host,    \* the host's dynamic state: for each element, the flags that are set
    log,     \* the host callbacks the last call issued, in order
    watch    \* an observer's note of one earlier parse_selector outcome

vars == <<pc, call, host, log, watch>>

\* Bounds of the model.
MaxTokens == 3
NumElems == 2

\* 255.0, the scale of a packed channel.
ByteMax == 255

\* One unit of a colour channel is 1/Unit.
Unit == 8 * ByteMax

\* One unit of a calc value is 1/ValScale.
ValScale == 10 * 10

Some(v) == [ok |-> TRUE, val |-> v]
None == [ok |-> FALSE]
Ok(v) == [ok |-> TRUE, val |-> v]
Err(e) == [ok |-> FALSE, err |-> e]

\* How a call ends: it returns its record, or it panics.
Returned(r) == [outcome |-> "returned", ret |-> r]
Abort == [outcome |-> "abort", ret |-> [panic |-> TRUE]]

(***************************************************************************)
(* url::Url::parse, on the texts the boundary functions pass to it.        *)
(***************************************************************************)
UrlTexts == {"about:blank", "http://example.com", "https://example.com/style.css",
             "not a url", ""}

Url_parse(text) ==
    IF text \in {"about:blank", "http://example.com", "https://example.com/style.css"}
    THEN Ok(text)
    ELSE Err(IF text = "" THEN "EmptyHost" ELSE "RelativeUrlWithoutBase")

(***************************************************************************)
(* Colours.                                                                *)
(***************************************************************************)
ColorSpaces == <<"Srgb", "Hsl", "Hwb", "Lab", "Lch", "Oklab", "Oklch", "SrgbLinear",
                 "DisplayP3", "A98Rgb", "ProphotoRgb", "Rec2020", "XyzD50", "XyzD65">>

AbsoluteColor(space, c0, c1, c2, a) ==
    [color_space |-> space, components |-> <<c0, c1, c2>>, alpha |-> a]

\* Arguments of the functional notations the model parses.
RgbArgs == {-20, 0, 128, ByteMax, 300}
AlphaArgs == {-(3 * Unit), 0, Unit \div 2, Unit, 2 * Unit}
ChanArgs == {-(Unit \div 2), -4, 0, 4, Unit \div 2, Unit, Unit + (Unit \div 2)}

ColorKeywords == {"red", "blue", "transparent", "#ff0000", "currentColor",
                  "color-mix(in srgb, red, blue)",
                  "hsla(-300, 100%, 37.5%, -3)", "color(display-p3 1 0 0)",
                  "notacolor", "rgb(255, 0", ""}

ColorTexts ==
    {<<k>> : k \in ColorKeywords}
    \cup {<<"rgb", r, g, b>> : r \in RgbArgs, g \in {0, ByteMax}, b \in {0, 128}}
    \cup {<<"rgba", r, 0, 0, a>> : r \in {0, ByteMax}, a \in AlphaArgs}
    \cup {<<"color(srgb", c0, c1, c2, a>> :
              c0 \in ChanArgs, c1 \in ChanArgs, c2 \in {0, Unit}, a \in {Unit \div 2, Unit}}

Clamp(x, lo, hi) == IF x < lo THEN lo ELSE IF x > hi THEN hi ELSE x

\* A legacy rgb() argument, clamped to 0..255 and stored as a channel in 0..1.
LegacyChannel(n) == Clamp(n, 0, ByteMax) * (Unit \div ByteMax)

(***************************************************************************)
(* properties::longhands::color::parse: the specified colour of a text, or *)
(* the parser's error.                                                     *)
(***************************************************************************)
color_parse(text) ==
    CASE text = <<"red">> -> Ok([kind |-> "Absolute", color |-> AbsoluteColor("Srgb", Unit, 0, 0, Unit)])
      [] text = <<"blue">> -> Ok([kind |-> "Absolute", color |-> AbsoluteColor("Srgb", 0, 0, Unit, Unit)])
      [] text = <<"transparent">> -> Ok([kind |-> "Absolute", color |-> AbsoluteColor("Srgb", 0, 0, 0, 0)])
      [] text = <<"#ff0000">> -> Ok([kind |-> "Absolute", color |-> AbsoluteColor("Srgb", Unit, 0, 0, Unit)])
      [] text = <<"currentColor">> -> Ok([kind |-> "CurrentColor"])
      [] text = <<"color-mix(in srgb, red, blue)">> -> Ok([kind |-> "ColorMix"])
      [] text = <<"hsla(-300, 100%, 37.5%, -3)">> ->
            Ok([kind |-> "Absolute",
                color |-> AbsoluteColor("Hsl", 60 * Unit, Unit, (3 * Unit) \div 8, -(3 * Unit))])
      [] text = <<"color(display-p3 1 0 0)">> ->
            Ok([kind |-> "Absolute", color |-> AbsoluteColor("DisplayP3", Unit, 0, 0, Unit)])
      [] text = <<"notacolor">> -> Err("UnexpectedToken(Ident(notacolor))")
      [] text = <<"rgb(255, 0">> -> Err("EndOfInput")
      [] text = <<"">> -> Err("EndOfInput")
      [] OTHER ->
            CASE text[1] = "rgb" ->
                    Ok([kind |-> "Absolute",
                        color |-> AbsoluteColor("Srgb", LegacyChannel(text[2]),
                                      LegacyChannel(text[3]), LegacyChannel(text[4]), Unit)])
              [] text[1] = "rgba" ->
                    Ok([kind |-> "Absolute",
                        color |-> AbsoluteColor("Srgb", LegacyChannel(text[2]),
                                      LegacyChannel(text[3]), LegacyChannel(text[4]), text[5])])
              [] text[1] = "color(srgb" ->
                    Ok([kind |-> "Absolute",
                        color |-> AbsoluteColor("Srgb", text[2], text[3], text[4], text[5])])

(***************************************************************************)
(* AbsoluteColor::to_color_space(Srgb): a colour already in sRGB is        *)
(* returned as it is; the other colours of the model by the value of the   *)
(* space's conversion formula (alpha is carried over).                     *)
(***************************************************************************)
to_color_space_srgb(c) ==
    CASE c.color_space = "Srgb" -> c
      [] c.color_space = "Hsl" /\ c.components = <<60 * Unit, Unit, (3 * Unit) \div 8>> ->
            AbsoluteColor("Srgb", (3 * Unit) \div 4, (3 * Unit) \div 4, 0, c.alpha)
      [] c.color_space = "DisplayP3" /\ c.components = <<Unit, 0, 0>> ->
            AbsoluteColor("Srgb", (1093 * Unit) \div 1000, -((227 * Unit) \div 1000),
                          -((150 * Unit) \div 1000), c.alpha)

\* f32::round of p/q (q > 0): to the nearest integer, halves away from zero.
Round(p, q) ==
    IF p >= 0 THEN (2 * p + q) \div (2 * q) ELSE -((2 * (-p) + q) \div (2 * q))

\* `as u8` of an integral f32: the cast saturates.
AsU8Wrap(x) == x % 256
AsU8(x) == IF x < 0 THEN 0 ELSE IF x > 255 THEN 255 ELSE x

\* (c * 255.0).round() as u8
PackChannelNoScale(c) == AsU8(Round(c, Unit))
PackChannel(c) == AsU8(Round(c * ByteMax, Unit))

\* A u32 is the pair of its 16-bit halves: its value is hi * 65536 + lo.
U32(hi, lo) == [hi |-> hi, lo |-> lo]

\* u32::from_le_bytes: b[1] is the least significant byte.
from_le_bytes(b) == U32(256 * b[4] + b[3], 256 * b[2] + b[1])

ParsedColor(ok, c0, c1, c2, a, space, msg) ==
    [success |-> ok, components |-> [c0 |-> c0, c1 |-> c1, c2 |-> c2], alpha |-> a,
     color_space |-> space, error_message |-> msg]

ParsedNsColor(ok, n, msg) == [success |-> ok, nscolor |-> n, error_message |-> msg]

CurrentColorMsg == "CurrentColor cannot be converted to absolute color"
UnresolvedMsg == "Color cannot be resolved to absolute color at parse time"
ColorErrMsg(e) == "Failed to parse color: " \o e

ffi_ColorSpace(space) == CHOOSE i \in 1..Len(ColorSpaces) : ColorSpaces[i] = space

parse_color_SameMsg(color_str) ==
    LET parsed == color_parse(color_str) IN
    IF ~Url_parse("http://example.com").ok THEN Abort
    ELSE IF ~parsed.ok THEN Returned(ParsedColor(FALSE, 0, 0, 0, 0, "Srgb", ColorErrMsg(parsed.err)))
    ELSE IF parsed.val.kind # "Absolute"
         THEN Returned(ParsedColor(FALSE, 0, 0, 0, 0, "Srgb", CurrentColorMsg))
    ELSE LET c == parsed.val.color IN
         Returned(ParsedColor(TRUE, c.components[1], c.components[2], c.components[3],
                              c.alpha, ColorSpaces[ffi_ColorSpace(c.color_space)], ""))

parse_color_ToSrgb(color_str) ==
    LET parsed == color_parse(color_str) IN
    IF ~parsed.ok THEN Returned(ParsedColor(FALSE, 0, 0, 0, 0, "Srgb", ColorErrMsg(parsed.err)))
    ELSE IF parsed.val.kind = "CurrentColor"
         THEN Returned(ParsedColor(FALSE, 0, 0, 0, 0, "Srgb", CurrentColorMsg))
    ELSE IF parsed.val.kind # "Absolute"
         THEN Returned(ParsedColor(FALSE, 0, 0, 0, 0, "Srgb", UnresolvedMsg))
    ELSE LET c == to_color_space_srgb(parsed.val.color) IN
         Returned(ParsedColor(TRUE, c.components[1], c.components[2], c.components[3],
                              Clamp(c.alpha, 0, Unit), "Srgb", ""))

parse_color(color_str) ==
    LET parsed == color_parse(color_str) IN
    IF ~Url_parse("http://example.com").ok THEN Abort
    ELSE IF ~parsed.ok THEN Returned(ParsedColor(FALSE, 0, 0, 0, 0, "Srgb", ColorErrMsg(parsed.err)))
    ELSE IF parsed.val.kind = "CurrentColor"
         THEN Returned(ParsedColor(FALSE, 0, 0, 0, 0, "Srgb", CurrentColorMsg))
    ELSE IF parsed.val.kind # "Absolute"
         THEN Returned(ParsedColor(FALSE, 0, 0, 0, 0, "Srgb", UnresolvedMsg))
    ELSE LET c == parsed.val.color IN
         Returned(ParsedColor(TRUE, c.components[1], c.components[2], c.components[3],
                              c.alpha, ColorSpaces[ffi_ColorSpace(c.color_space)], ""))

parse_color_to_nscolor(color_str) ==
    LET parsed == color_parse(color_str) IN
    IF ~Url_parse("http://example.com").ok THEN Abort
    ELSE IF ~parsed.ok THEN Returned(ParsedNsColor(FALSE, U32(0, 0), ColorErrMsg(parsed.err)))
    ELSE IF parsed.val.kind = "CurrentColor"
         THEN Returned(ParsedNsColor(FALSE, U32(0, 0), CurrentColorMsg))
    ELSE IF parsed.val.kind # "Absolute"
         THEN Returned(ParsedNsColor(FALSE, U32(0, 0), UnresolvedMsg))
    ELSE LET srgb == to_color_space_srgb(parsed.val.color)
             nscolor == from_le_bytes(<<PackChannel(srgb.components[1]),
                                        PackChannel(srgb.components[2]),
                                        PackChannel(srgb.components[3]),
                                        PackChannel(srgb.alpha)>>)
         IN Returned(ParsedNsColor(TRUE, nscolor, ""))

(***************************************************************************)
(* Token texts.                                                            *)
(***************************************************************************)
RECURSIVE SeqsUpTo(_, _)
SeqsUpTo(S, n) ==
    IF n = 0 THEN {<<>>}
    ELSE LET P == SeqsUpTo(S, n - 1)
         IN P \cup {Append(q, t) : q \in {r \in P : Len(r) = n - 1}, t \in S}

\* The index of the first token of t that is in S, or 0.
FirstIn(t, S) ==
    IF \E i \in 1..Len(t) : t[i] \in S
    THEN CHOOSE i \in 1..Len(t) : t[i] \in S /\ \A j \in 1..(i - 1) : t[j] \notin S
    ELSE 0

\* The pieces of t between the tokens of S.
RECURSIVE SplitOn(_, _)
SplitOn(t, S) ==
    LET i == FirstIn(t, S) IN
    IF i = 0 THEN <<t>>
    ELSE <<SubSeq(t, 1, i - 1)>> \o SplitOn(SubSeq(t, i + 1, Len(t)), S)

(***************************************************************************)
(* Selector texts: a type, an id, a class, a pseudo-class, a negation, the *)
(* universal selector, the child combinator, whitespace (the descendant    *)
(* combinator) and the comma.                                              *)
(***************************************************************************)
SelTokens == {"div", "#x", ".a", ":hover", ":not(div)", "*", ">", " ", ","}
IdentEnd == {"div", "#x", ".a", ":hover"}

\* Token sequences that are the tokens of a text: an identifier that follows
\* an identifier is part of it, and adjacent whitespace is one token.
WellLexed(t) ==
    \A i \in 2..Len(t) :
        /\ ~(t[i] = "div" /\ t[i - 1] \in IdentEnd)
        /\ ~(t[i] = " " /\ t[i - 1] = " ")

\* ">>>invalid", "div.my-class:hover > span#id", three lists, and selectors
\* with an attribute condition.
TestSelectors == {
    <<">", ">", ">", "div">>,
    <<"div", ".a", ":hover", " ", ">", " ", "div", "#x">>,
    <<"div", ",", ".a", ",", ":hover">>,
    <<"#x", ",", "*", ",", "div">>,
    <<"*", " ", ":hover", ",", "div", ">", "*">>,
    <<"[href]">>,
    <<"div", "[href]">>,
    <<"[href]", ",", "span">>}

SelectorTexts == {t \in SeqsUpTo(SelTokens, MaxTokens) : WellLexed(t)} \cup TestSelectors

(***************************************************************************)
(* SelectorParser::parse_author_origin_no_namespace: the selector list of  *)
(* a text, or the parser's error.  A selector is its compounds, left to    *)
(* right, and the combinators between them.                                *)
(***************************************************************************)
Component(tok) ==
    CASE tok = "div" -> [kind |-> "LocalName", name |-> "div"]
      [] tok = "#x" -> [kind |-> "ID", name |-> "x"]
      [] tok = ".a" -> [kind |-> "Class", name |-> "a"]
      [] tok = ":hover" -> [kind |-> "NonTSPseudoClass", name |-> "Hover"]
      [] tok = ":not(div)" -> [kind |-> "Negation", name |-> "div"]
      [] tok = "*" -> [kind |-> "ExplicitUniversalType", name |-> ""]
      [] tok = "span" -> [kind |-> "LocalName", name |-> "span"]
      [] tok = "[href]" -> [kind |-> "AttributeInNoNamespaceExists", name |-> "href"]

\* Whitespace is skipped at both ends of the text and next to ">" and ",".
SignificantWs(t, i) ==
    t[i] = " " => /\ 1 < i /\ i < Len(t)
                  /\ t[i - 1] \notin {">", ","}
                  /\ t[i + 1] \notin {">", ","}

\* The tokens of t from the i-th on, without the skipped whitespace.
RECURSIVE SkipWs(_, _)
SkipWs(t, i) ==
    IF i > Len(t) THEN <<>>
    ELSE (IF SignificantWs(t, i) THEN <<t[i]>> ELSE <<>>) \o SkipWs(t, i + 1)

ValidCompound(c) == Len(c) >= 1 /\ \A i \in 2..Len(c) : c[i] \notin {"div", "span", "*"}

RECURSIVE Combinators(_)
Combinators(t) ==
    LET i == FirstIn(t, {">", " "}) IN
    IF i = 0 THEN <<>>
    ELSE <<IF t[i] = ">" THEN "Child" ELSE "Descendant">>
             \o Combinators(SubSeq(t, i + 1, Len(t)))

parse_complex(t) ==
    LET parts == SplitOn(t, {">", " "}) IN
    [compounds |-> [k \in 1..Len(parts) |->
                        [j \in 1..Len(parts[k]) |-> Component(parts[k][j])]],
     combinators |-> Combinators(t)]

parse_selector_list(text) ==
    LET t == SkipWs(text, 1)
        items == SplitOn(t, {","})
    IN IF \E k \in 1..Len(items) : items[k] = <<>>
       THEN Err("EmptySelector")
       ELSE IF \E k \in 1..Len(items) :
                   \E c \in {SplitOn(items[k], {">", " "})[j] :
                                j \in 1..Len(SplitOn(items[k], {">", " "}))} :
                       ~ValidCompound(c)
       THEN Err("UnexpectedToken")
       ELSE Ok([k \in 1..Len(items) |-> parse_complex(items[k])])

(***************************************************************************)
(* The host (stylo/ffi/selector_bridge.h): a document of NumElems          *)
(* elements, element e the only child of element e - 1.  Handle 0 is the   *)
(* null element: no predicate holds of it, it has no state and no          *)
(* relative.                                                               *)
(***************************************************************************)
Elements == 1..NumElems
Handles == 0..NumElems
Flags == {"HOVER"}

LocalName(e) == IF e % 2 = 1 THEN "div" ELSE "span"
Id(e) == IF e = 1 THEN "x" ELSE ""
Classes(e) == IF e >= 2 THEN {"a"} ELSE {}

is_element_null(h) == h = 0
get_parent_element(h) == IF h = 0 THEN 0 ELSE h - 1
get_element_state(h) == IF h = 0 THEN {} ELSE host[h]
element_has_local_name(h, name) == h # 0 /\ LocalName(h) = name
element_has_id(h, id) == h # 0 /\ Id(h) = id
element_has_class(h, clazz) == h # 0 /\ clazz \in Classes(h)

\* The rest of the callbacks.  In the chain an element has no sibling, the
\* first element is the root and the last one is empty.
HtmlNs == "http://www.w3.org/1999/xhtml"
get_prev_sibling_element(h) == 0
get_next_sibling_element(h) == 0
get_first_element_child(h) == IF h = 0 \/ h = NumElems THEN 0 ELSE h + 1
element_has_namespace(h, ns) == h # 0 /\ ns = HtmlNs
element_is_link(h) == h # 0 /\ Classes(h) # {}
element_is_root(h) == h = 1
element_is_empty(h) == h = NumElems

\* One host callback, or one call of the matching library, in the log.
CB(cb, h, arg) == [sel |-> 0, cb |-> cb, h |-> h, arg |-> arg]

(***************************************************************************)
(* FFIElementWrapper: each query gives its value and the host callbacks it *)
(* issued.                                                                 *)
(***************************************************************************)
NonNull_new(p) == IF p = 0 THEN None ELSE Some(p)

opaque_ExpectOnly(h) ==
    IF NonNull_new(h).ok THEN Returned([identity |-> NonNull_new(h).val]) ELSE Abort

opaque(h) ==
    IF h = 0 THEN Returned([identity |-> 1])
    ELSE IF NonNull_new(h).ok THEN Returned([identity |-> NonNull_new(h).val])
    ELSE Abort

parent_element(h) ==
    LET parent == get_parent_element(h) IN
    [val |-> IF is_element_null(parent) THEN None ELSE Some(parent),
     cbs |-> <<CB("get_parent_element", h, ""), CB("is_element_null", parent, "")>>]

prev_sibling_element(h) ==
    LET sibling == get_prev_sibling_element(h) IN
    [val |-> IF is_element_null(sibling) THEN None ELSE Some(sibling),
     cbs |-> <<CB("get_prev_sibling_element", h, ""), CB("is_element_null", sibling, "")>>]

next_sibling_element(h) ==
    LET sibling == get_next_sibling_element(h) IN
    [val |-> IF is_element_null(sibling) THEN None ELSE Some(sibling),
     cbs |-> <<CB("get_next_sibling_element", h, ""), CB("is_element_null", sibling, "")>>]

first_element_child_WrapNull(h) ==
    LET child == get_first_element_child(h) IN
    [val |-> Some(child), cbs |-> <<CB("get_first_element_child", h, "")>>]

first_element_child(h) ==
    LET child == get_first_element_child(h) IN
    [val |-> IF is_element_null(child) THEN None ELSE Some(child),
     cbs |-> <<CB("get_first_element_child", h, ""), CB("is_element_null", child, "")>>]

\* The capabilities the adapter answers without the host.
NoCallback(v) == [val |-> v, cbs |-> <<>>]
parent_node_is_shadow_root(h) == NoCallback(FALSE)
containing_shadow_host(h) == NoCallback(None)
is_pseudo_element(h) == NoCallback(FALSE)
is_html_element_in_html_document(h) == NoCallback(TRUE)
match_pseudo_element(h, pe) == NoCallback(FALSE)
is_html_slot_element(h) == NoCallback(FALSE)
has_custom_state(h, name) == NoCallback(FALSE)
imported_part(h, name) == NoCallback(None)
is_part(h, name) == NoCallback(FALSE)
add_element_unique_hashes(h) == NoCallback(FALSE)

attr_matches_Host(h, ns, local_name, operation) ==
    [val |-> ~is_element_null(h), cbs |-> <<CB("is_element_null", h, "")>>]

attr_matches(h, ns, local_name, operation) == NoCallback(FALSE)

is_same_type_Tag(h, other) ==
    [val |-> h # 0 /\ other # 0 /\ LocalName(h) = LocalName(other), cbs |-> <<>>]

is_same_type(h, other) == NoCallback(h = other)

has_namespace(h, ns) ==
    [val |-> element_has_namespace(h, ns), cbs |-> <<CB("element_has_namespace", h, ns)>>]

is_link(h) == [val |-> element_is_link(h), cbs |-> <<CB("element_is_link", h, "")>>]
is_empty(h) == [val |-> element_is_empty(h), cbs |-> <<CB("element_is_empty", h, "")>>]
is_root(h) == [val |-> element_is_root(h), cbs |-> <<CB("element_is_root", h, "")>>]

has_local_name_Any(h, local_name) ==
    [val |-> TRUE, cbs |-> <<CB("element_has_local_name", h, local_name)>>]

has_local_name(h, local_name) ==
    [val |-> element_has_local_name(h, local_name),
     cbs |-> <<CB("element_has_local_name", h, local_name)>>]

has_id_AskTwice(h, id) ==
    [val |-> element_has_id(h, id) /\ ~is_element_null(h),
     cbs |-> <<CB("element_has_id", h, id), CB("is_element_null", h, "")>>]

has_id(h, id) ==
    [val |-> element_has_id(h, id), cbs |-> <<CB("element_has_id", h, id)>>]

has_class(h, name) ==
    [val |-> element_has_class(h, name), cbs |-> <<CB("element_has_class", h, name)>>]

\* ElementState::from_bits_truncate keeps the known flags.
ElementStateFlags == {"ACTIVE", "FOCUS", "HOVER", "ENABLED", "DISABLED", "CHECKED",
                      "INDETERMINATE", "PLACEHOLDER_SHOWN", "URLTARGET", "VISITED",
                      "UNVISITED"}
from_bits_truncate(bits) == bits \cap ElementStateFlags

match_non_ts_pseudo_class_AnyLinkAll(h, pcl) ==
    LET state == from_bits_truncate(get_element_state(h)) IN
    [val |-> CASE pcl = "Active" -> "ACTIVE" \in state
               [] pcl = "Focus" -> "FOCUS" \in state
               [] pcl = "Hover" -> "HOVER" \in state
               [] pcl = "Enabled" -> "ENABLED" \in state
               [] pcl = "Disabled" -> "DISABLED" \in state
               [] pcl = "Checked" -> "CHECKED" \in state
               [] pcl = "Indeterminate" -> "INDETERMINATE" \in state
               [] pcl = "PlaceholderShown" -> "PLACEHOLDER_SHOWN" \in state
               [] pcl = "Target" -> "URLTARGET" \in state
               [] pcl = "Visited" -> "VISITED" \in state
               [] pcl = "Link" -> "UNVISITED" \in state
               [] pcl = "AnyLink" -> {"VISITED", "UNVISITED"} \subseteq state
               [] OTHER -> FALSE,
     cbs |-> <<CB("get_element_state", h, "")>>]

match_non_ts_pseudo_class_Cached(h, pcl) ==
    LET state == IF watch.seen /\ h = 1
                 THEN (IF watch.success THEN {"HOVER"} ELSE {})
                 ELSE from_bits_truncate(get_element_state(h)) IN
    [val |-> CASE pcl = "Active" -> "ACTIVE" \in state
               [] pcl = "Focus" -> "FOCUS" \in state
               [] pcl = "Hover" -> "HOVER" \in state
               [] pcl = "Enabled" -> "ENABLED" \in state
               [] pcl = "Disabled" -> "DISABLED" \in state
               [] pcl = "Checked" -> "CHECKED" \in state
               [] pcl = "Indeterminate" -> "INDETERMINATE" \in state
               [] pcl = "PlaceholderShown" -> "PLACEHOLDER_SHOWN" \in state
               [] pcl = "Target" -> "URLTARGET" \in state
               [] pcl = "Visited" -> "VISITED" \in state
               [] pcl = "Link" -> "UNVISITED" \in state
               [] pcl = "AnyLink" -> state \cap {"VISITED", "UNVISITED"} # {}
               [] OTHER -> FALSE,
     cbs |-> <<CB("get_element_state", h, "")>>]

match_non_ts_pseudo_class(h, pcl) ==
    LET state == from_bits_truncate(get_element_state(h)) IN
    [val |-> CASE pcl = "Active" -> "ACTIVE" \in state
               [] pcl = "Focus" -> "FOCUS" \in state
               [] pcl = "Hover" -> "HOVER" \in state
               [] pcl = "Enabled" -> "ENABLED" \in state
               [] pcl = "Disabled" -> "DISABLED" \in state
               [] pcl = "Checked" -> "CHECKED" \in state
               [] pcl = "Indeterminate" -> "INDETERMINATE" \in state
               [] pcl = "PlaceholderShown" -> "PLACEHOLDER_SHOWN" \in state
               [] pcl = "Target" -> "URLTARGET" \in state
               [] pcl = "Visited" -> "VISITED" \in state
               [] pcl = "Link" -> "UNVISITED" \in state
               [] pcl = "AnyLink" -> state \cap {"VISITED", "UNVISITED"} # {}
               [] OTHER -> FALSE,
     cbs |-> <<CB("get_element_state", h, "")>>]

(***************************************************************************)
(* selectors::matching::matches_selector from offset 0: the compounds are  *)
(* matched right to left, the components of a compound in order until one  *)
(* fails.                                                                  *)
(***************************************************************************)
matches_simple(c, h) ==
    CASE c.kind = "LocalName" -> has_local_name(h, c.name)
      [] c.kind = "ID" -> has_id(h, c.name)
      [] c.kind = "Class" -> has_class(h, c.name)
      [] c.kind = "NonTSPseudoClass" -> match_non_ts_pseudo_class(h, c.name)
      [] c.kind = "Negation" ->
            LET r == has_local_name(h, c.name) IN [val |-> ~r.val, cbs |-> r.cbs]
      [] c.kind = "ExplicitUniversalType" -> [val |-> TRUE, cbs |-> <<>>]
      [] c.kind = "AttributeInNoNamespaceExists" -> attr_matches(h, "", c.name, "Exists")

RECURSIVE matches_compound(_, _, _)
matches_compound(cs, i, h) ==
    IF i > Len(cs) THEN [val |-> TRUE, cbs |-> <<>>]
    ELSE LET r == matches_simple(cs[i], h) IN
         IF ~r.val THEN r
         ELSE LET rest == matches_compound(cs, i + 1, h)
              IN [val |-> rest.val, cbs |-> r.cbs \o rest.cbs]

\* Compound k of the selector against h, then the compounds to its left
\* against the relatives of h.
RECURSIVE matches_complex(_, _, _)
RECURSIVE matches_ancestor(_, _, _)
matches_ancestor(sel, k, h) ==
    LET p == parent_element(h) IN
    IF ~p.val.ok THEN [val |-> FALSE, cbs |-> p.cbs]
    ELSE LET r == matches_complex(sel, k, p.val.val) IN
         IF r.val \/ sel.combinators[k] = "Child"
         THEN [val |-> r.val, cbs |-> p.cbs \o r.cbs]
         ELSE LET up == matches_ancestor(sel, k, p.val.val)
              IN [val |-> up.val, cbs |-> p.cbs \o r.cbs \o up.cbs]

matches_complex(sel, k, h) ==
    LET r == matches_compound(sel.compounds[k], 1, h) IN
    IF ~r.val \/ k = 1 THEN r
    ELSE LET rel == matches_ancestor(sel, k - 1, h)
         IN [val |-> rel.val, cbs |-> r.cbs \o rel.cbs]

matches_selector(sel, h) ==
    LET r == matches_complex(sel, Len(sel.compounds), h)
    IN [val |-> r.val, cbs |-> <<CB("matches_selector", h, "")>> \o r.cbs]

(***************************************************************************)
(* parse_selector and match_selector.                                      *)
(***************************************************************************)
ParseResult_NoMsg(ok, msg) == [success |-> ok]

ParseResult(ok, msg) == [success |-> ok, error_message |-> msg]
SelectorMatchResult(m, msg) == [matches |-> m, error_message |-> msg]
SelectorErrMsg(e) == "Failed to parse selector: " \o e

parse_selector_Cached(selector) ==
    LET parsed == parse_selector_list(selector) IN
    IF watch.seen /\ watch.text = selector
    THEN Returned(ParseResult(FALSE, SelectorErrMsg("Cached")))
    ELSE IF parsed.ok THEN Returned(ParseResult(TRUE, ""))
    ELSE Returned(ParseResult(FALSE, SelectorErrMsg(parsed.err)))

parse_selector(selector) ==
    LET parsed == parse_selector_list(selector) IN
    IF ~Url_parse("about:blank").ok THEN Abort
    ELSE IF parsed.ok THEN Returned(ParseResult(TRUE, ""))
    ELSE Returned(ParseResult(FALSE, SelectorErrMsg(parsed.err)))

\* The callbacks of selector i of the list.
OfSelector(cbs, i) == [k \in 1..Len(cbs) |-> [cbs[k] EXCEPT !.sel = i]]

\* The loop over the list, from selector i on.
RECURSIVE match_any_NoBreak(_, _, _)
match_any_NoBreak(list, i, h) ==
    IF i > Len(list) THEN [val |-> FALSE, cbs |-> <<>>]
    ELSE LET r == matches_selector(list[i], h)
             rest == match_any_NoBreak(list, i + 1, h)
         IN [val |-> r.val \/ rest.val, cbs |-> OfSelector(r.cbs, i) \o rest.cbs]

RECURSIVE match_any(_, _, _)
match_any(list, i, h) ==
    IF i > Len(list) THEN [val |-> FALSE, cbs |-> <<>>]
    ELSE LET r == matches_selector(list[i], h) IN
         IF r.val THEN [val |-> TRUE, cbs |-> OfSelector(r.cbs, i)]
         ELSE LET rest == match_any(list, i + 1, h)
              IN [val |-> rest.val, cbs |-> OfSelector(r.cbs, i) \o rest.cbs]

match_selector(selector, element) ==
    LET parsed == parse_selector_list(selector) IN
    IF ~Url_parse("about:blank").ok THEN [outcome |-> "abort", ret |-> [panic |-> TRUE], cbs |-> <<>>]
    ELSE IF ~parsed.ok
    THEN [outcome |-> "returned",
          ret |-> SelectorMatchResult(FALSE, SelectorErrMsg(parsed.err)), cbs |-> <<>>]
    ELSE LET r == match_any(parsed.val, 1, element.ptr)
         IN [outcome |-> "returned", ret |-> SelectorMatchResult(r.val, ""), cbs |-> r.cbs]

(***************************************************************************)
(* Value texts: the calc( function token, the closing parenthesis, digits, *)
(* the percent sign, a plus sign between whitespace, whitespace and the    *)
(* unit px.                                                                *)
(***************************************************************************)
CalcTokens == {"calc(", ")", "4", "2", "%", " + ", " ", "px"}
Digits == <<"0", "1", "2", "3", "4", "5", "6", "7", "8", "9">>
IsDigit(tok) == \E d \in 1..10 : Digits[d] = tok
DigitValue(tok) == (CHOOSE d \in 1..10 : Digits[d] = tok) - 1

\* Adjacent whitespace is one token.
WellLexedValue(t) ==
    \A i \in 2..Len(t) : ~(t[i] \in {" ", " + "} /\ t[i - 1] \in {" ", " + "})

\* "42", " 42 ", "calc(5)", "calc(50%)", "calc(1 + 2)", "calc(5px)" and
\* "calc(calc(5))".
TestValues == {
    <<"4", "2">>,
    <<" ", "4", "2", " ">>,
    <<"calc(", "5", ")">>,
    <<"calc(", "5", "0", "%", ")">>,
    <<"calc(", "1", " + ", "2", ")">>,
    <<"calc(", "5", "px", ")">>,
    <<"calc(", "calc(", "5", ")", ")">>}

ValueTexts == {t \in SeqsUpTo(CalcTokens, MaxTokens) : WellLexedValue(t)} \cup TestValues

\* The decimal number of the digits t[i..j], after the digits valued acc.
RECURSIVE Decimal(_, _, _, _)
Decimal(t, i, j, acc) ==
    IF i > j THEN acc ELSE Decimal(t, i + 1, j, 10 * acc + DigitValue(t[i]))

\* The last index of the run of digits of t that starts at i.
RECURSIVE DigitsEnd(_, _)
DigitsEnd(t, i) == IF i < Len(t) /\ IsDigit(t[i + 1]) THEN DigitsEnd(t, i + 1) ELSE i

\* The index of the first token of t at or after i that is not whitespace.
RECURSIVE SkipSpace(_, _)
SkipSpace(t, i) == IF i <= Len(t) /\ t[i] = " " THEN SkipSpace(t, i + 1) ELSE i

(***************************************************************************)
(* CalcNode::parse on the tokens of t from i on: a sum of leaves, a leaf   *)
(* being a number, a percentage, a length or a nested calc().  The result  *)
(* is the node and the index after it.  A block that the text does not     *)
(* close ends with the text.                                               *)
(***************************************************************************)
Leaf(kind, value) == [node |-> "Leaf", kind |-> kind, value |-> value]

RECURSIVE CalcNode_parse_sum(_, _)
RECURSIVE CalcNode_parse_one(_, _)
RECURSIVE CalcNode_parse_rest(_, _, _)

\* The argument of calc( from i on, to the end of its block.
CalcNode_parse_block(t, i) ==
    LET r == CalcNode_parse_sum(t, i) IN
    IF ~r.ok THEN r
    ELSE LET j == SkipSpace(t, r.next) IN
         IF j > Len(t) THEN [ok |-> TRUE, val |-> r.val, next |-> j]
         ELSE IF t[j] = ")" THEN [ok |-> TRUE, val |-> r.val, next |-> j + 1]
         ELSE [ok |-> FALSE, err |-> "UnexpectedToken"]

CalcNode_parse_one(t, i0) ==
    LET i == SkipSpace(t, i0) IN
    IF i > Len(t) THEN [ok |-> FALSE, err |-> "EndOfInput"]
    ELSE IF IsDigit(t[i])
    THEN LET j == DigitsEnd(t, i)
             n == Decimal(t, i, j, 0)
         IN IF j < Len(t) /\ t[j + 1] = "%"
            THEN [ok |-> TRUE, val |-> Leaf("Percentage", n), next |-> j + 2]
            ELSE IF j < Len(t) /\ t[j + 1] = "px"
            THEN [ok |-> TRUE, val |-> Leaf("Length", n * ValScale), next |-> j + 2]
            ELSE [ok |-> TRUE, val |-> Leaf("Number", n * ValScale), next |-> j + 1]
    ELSE IF t[i] = "calc(" THEN CalcNode_parse_block(t, i + 1)
    ELSE [ok |-> FALSE, err |-> "UnexpectedToken"]

\* The terms after the first: each follows a plus sign.
CalcNode_parse_rest(t, i, terms) ==
    IF i <= Len(t) /\ t[i] = " + "
    THEN LET r == CalcNode_parse_one(t, i + 1) IN
         IF ~r.ok THEN r ELSE CalcNode_parse_rest(t, r.next, Append(terms, r.val))
    ELSE [ok |-> TRUE, next |-> i,
          val |-> IF Len(terms) = 1 THEN terms[1] ELSE [node |-> "Sum", terms |-> terms]]

CalcNode_parse_sum(t, i) ==
    LET r == CalcNode_parse_one(t, i) IN
    IF ~r.ok THEN r ELSE CalcNode_parse_rest(t, r.next, <<r.val>>)

\* p.expect_function_matching("calc") and the nested block (mod.rs:271-281).
parse_calc_function(t) ==
    LET i == SkipSpace(t, 1) IN
    IF i > Len(t) THEN [ok |-> FALSE, err |-> "EndOfInput"]
    ELSE IF t[i] # "calc(" THEN [ok |-> FALSE, err |-> "UnexpectedToken"]
    ELSE CalcNode_parse_block(t, i + 1)

\* Parser::expect_no_error_token: a closing parenthesis that closes nothing
\* is an error token.  depth is the number of open blocks before token i.
RECURSIVE expect_no_error_token(_, _, _)
expect_no_error_token(t, i, depth) ==
    IF i > Len(t) THEN Ok(TRUE)
    ELSE IF t[i] = "calc(" THEN expect_no_error_token(t, i + 1, depth + 1)
    ELSE IF t[i] = ")"
    THEN IF depth = 0 THEN Err("UnexpectedToken")
         ELSE expect_no_error_token(t, i + 1, depth - 1)
    ELSE expect_no_error_token(t, i + 1, depth)

\* str::trim: the text without its leading and trailing whitespace.  The
\* plus token carries its whitespace, which trim removes and the sign stays.
RECURSIVE TrimEnd(_)
TrimEnd(t) == IF t # <<>> /\ t[Len(t)] = " " THEN TrimEnd(SubSeq(t, 1, Len(t) - 1)) ELSE t
trim(t) == TrimEnd(SubSeq(t, SkipSpace(t, 1), Len(t)))

\* str::parse::<f32> on the texts of the model: a run of digits.
parse_f32(t) ==
    IF t # <<>> /\ \A i \in 1..Len(t) : IsDigit(t[i])
    THEN Ok(Decimal(t, 1, Len(t), 0) * ValScale)
    ELSE Err("ParseFloatError")

(***************************************************************************)
(* evaluate_calc_expression, parse_css_value, get_computed_value.          *)
(***************************************************************************)
CalcResult(value, ok) == [value |-> value, success |-> ok]
ParsedCSSValue(value, ok) == [value |-> value, success |-> ok]

RECURSIVE SumOf(_, _)
SumOf(terms, i) == IF i > Len(terms) THEN 0 ELSE terms[i].value + SumOf(terms, i + 1)

try_extract_numeric_value_Sum(node) ==
    IF node.node = "Leaf" /\ node.kind \in {"Number", "Percentage"} THEN Some(node.value)
    ELSE IF node.node = "Sum" /\ \A i \in 1..Len(node.terms) : node.terms[i].node = "Leaf"
    THEN Some(SumOf(node.terms, 1))
    ELSE None

try_extract_numeric_value(node) ==
    IF node.node = "Leaf" /\ node.kind = "Number" THEN Some(node.value)
    ELSE IF node.node = "Leaf" /\ node.kind = "Percentage" THEN Some(node.value)
    ELSE None

evaluate_calc_expression(expr) ==
    LET calc_node == parse_calc_function(expr)
        val == parse_f32(trim(expr))
    IN IF ~Url_parse("about:blank").ok THEN Abort
       ELSE IF calc_node.ok /\ try_extract_numeric_value(calc_node.val).ok
       THEN Returned(CalcResult(try_extract_numeric_value(calc_node.val).val, TRUE))
       ELSE IF val.ok THEN Returned(CalcResult(val.val, TRUE))
       ELSE Returned(CalcResult(0, FALSE))

parse_css_value(value, property_name) ==
    IF ~Url_parse("about:blank").ok THEN Abort
    ELSE IF expect_no_error_token(value, 1, 0).ok THEN Returned(ParsedCSSValue(value, TRUE))
    ELSE Returned(ParsedCSSValue(<<>>, FALSE))

get_computed_value(value, property_name, base_font_size) ==
    Returned(ParsedCSSValue(value, value # <<>>))

(***************************************************************************)
(* parse_media_query and parse_stylesheet.                                 *)
(***************************************************************************)
MediaTokens == {"screen", " and ", "(min-width: 768px)", "not "}
MediaTexts == SeqsUpTo(MediaTokens, MaxTokens)

\* MediaQuery::parse from the i-th token on, after a media type or a feature:
\* each "and" takes a feature.
RECURSIVE MediaQuery_parse_and(_, _)
MediaQuery_parse_and(t, i) ==
    IF i > Len(t) \/ t[i] # " and " THEN Ok(i)
    ELSE IF i + 1 <= Len(t) /\ t[i + 1] = "(min-width: 768px)"
    THEN MediaQuery_parse_and(t, i + 2)
    ELSE Err(IF i + 1 > Len(t) THEN "EndOfInput" ELSE "UnexpectedToken")

MediaQuery_parse(t) ==
    LET i == IF t # <<>> /\ t[1] = "not " THEN 2 ELSE 1 IN
    IF i > Len(t) THEN Err("EndOfInput")
    ELSE IF t[i] \in {"screen", "(min-width: 768px)"} THEN MediaQuery_parse_and(t, i + 1)
    ELSE Err("UnexpectedToken")

MediaErrMsg(e) == "Failed to parse media query: " \o e
UrlErrMsg(e) == "Invalid base URL: " \o e

parse_media_query(query) ==
    LET parsed == MediaQuery_parse(query) IN
    IF ~Url_parse("about:blank").ok THEN Abort
    ELSE IF parsed.ok THEN Returned(ParseResult(TRUE, ""))
    ELSE Returned(ParseResult(FALSE, MediaErrMsg(parsed.err)))

\* Stylesheet texts: Stylesheet::from_str recovers from every error.
StylesheetTexts == {"body { color: red; font-size: 16px; }", "body { color: ", "}}", ""}

parse_stylesheet(css, base_url) ==
    LET url == Url_parse(base_url) IN
    IF ~url.ok THEN Returned(ParseResult(FALSE, UrlErrMsg(url.err)))
    ELSE Returned(ParseResult(TRUE, ""))

(***************************************************************************)
(* The state machine.                                                      *)
(***************************************************************************)
FFIElement(ptr) == [ptr |-> ptr]

NoCall == [fn |-> "none", args |-> <<>>, outcome |-> "none", ret |-> [none |-> TRUE]]
\* watch is history: the first observed parse_selector call (its text and its
\* success flag) and whether a call to another function has returned since.
NoWatch == [text |-> <<>>, seen |-> FALSE, success |-> FALSE, since |-> FALSE]

Init ==
    /\ pc = "idle"
    /\ call = NoCall
    /\ host = [e \in Elements |-> {}]
    /\ log = <<>>
    /\ watch = NoWatch

\* The record of a call that has run to its end.
Called(fn, args, res) == [fn |-> fn, args |-> args, outcome |-> res.outcome, ret |-> res.ret]

ParseColor ==
    \E t \in ColorTexts :
        /\ pc = "idle"
        /\ pc' = "returned"
        /\ call' = Called("parse_color", <<t>>, parse_color(t))
        /\ log' = <<>>
        /\ UNCHANGED <<host, watch>>

ParseColorToNsColor ==
    \E t \in ColorTexts :
        /\ pc = "idle"
        /\ pc' = "returned"
        /\ call' = Called("parse_color_to_nscolor", <<t>>, parse_color_to_nscolor(t))
        /\ log' = <<>>
        /\ UNCHANGED <<host, watch>>

ParseSelector ==
    \E s \in SelectorTexts :
        /\ pc = "idle"
        /\ pc' = "returned"
        /\ call' = Called("parse_selector", <<s>>, parse_selector(s))
        /\ log' = <<>>
        /\ UNCHANGED <<host, watch>>

MatchSelector ==
    \E s \in SelectorTexts, h \in Handles :
        LET r == match_selector(s, FFIElement(h)) IN
        /\ pc = "idle"
        /\ pc' = "returned"
        /\ call' = Called("match_selector", <<s, h>>, r)
        /\ log' = r.cbs
        /\ UNCHANGED <<host, watch>>

EvaluateCalcExpression ==
    \E e \in ValueTexts :
        /\ pc = "idle"
        /\ pc' = "returned"
        /\ call' = Called("evaluate_calc_expression", <<e>>, evaluate_calc_expression(e))
        /\ log' = <<>>
        /\ UNCHANGED <<host, watch>>

ParseCssValue ==
    \E v \in ValueTexts, prop \in {"width"} :
        /\ pc = "idle"
        /\ pc' = "returned"
        /\ call' = Called("parse_css_value", <<v, prop>>, parse_css_value(v, prop))
        /\ log' = <<>>
        /\ UNCHANGED <<host, watch>>

GetComputedValue ==
    \E v \in ValueTexts, prop \in {"font-size"}, base \in {16} :
        /\ pc = "idle"
        /\ pc' = "returned"
        /\ call' = Called("get_computed_value", <<v, prop, base>>,
                          get_computed_value(v, prop, base))
        /\ log' = <<>>
        /\ UNCHANGED <<host, watch>>

ParseMediaQuery ==
    \E q \in MediaTexts :
        /\ pc = "idle"
        /\ pc' = "returned"
        /\ call' = Called("parse_media_query", <<q>>, parse_media_query(q))
        /\ log' = <<>>
        /\ UNCHANGED <<host, watch>>

ParseStylesheet ==
    \E css \in StylesheetTexts, base_url \in UrlTexts :
        /\ pc = "idle"
        /\ pc' = "returned"
        /\ call' = Called("parse_stylesheet", <<css, base_url>>,
                          parse_stylesheet(css, base_url))
        /\ log' = <<>>
        /\ UNCHANGED <<host, watch>>

\* The matching library asks the adapter for the element's identity.
Opaque ==
    \E h \in Handles :
        /\ pc = "idle"
        /\ pc' = "returned"
        /\ call' = Called("opaque", <<h>>, opaque(h))
        /\ log' = <<>>
        /\ UNCHANGED <<host, watch>>

\* The matching library's queries of the adapter.  The record of a query is
\* its value; the log is the host callbacks it issued.
Queried(fn, args, r) == [fn |-> fn, args |-> args, outcome |-> "returned",
                         ret |-> [val |-> r.val]]

NavigationQueries == {"parent_element", "prev_sibling_element", "next_sibling_element",
                      "first_element_child"}

Navigation(q, h) ==
    CASE q = "parent_element" -> parent_element(h)
      [] q = "prev_sibling_element" -> prev_sibling_element(h)
      [] q = "next_sibling_element" -> next_sibling_element(h)
      [] q = "first_element_child" -> first_element_child(h)

Navigate ==
    \E h \in Handles, q \in NavigationQueries :
        /\ pc = "idle"
        /\ pc' = "returned"
        /\ call' = Queried(q, <<h>>, Navigation(q, h))
        /\ log' = Navigation(q, h).cbs
        /\ UNCHANGED <<host, watch>>

\* The predicates that are one host callback, with their arguments.
PredicateQueries ==
    {<<"has_local_name", n>> : n \in {"div", "span"}}
    \cup {<<"has_namespace", ns>> : ns \in {HtmlNs, ""}}
    \cup {<<"has_id", id>> : id \in {"x", "y"}}
    \cup {<<"has_class", c>> : c \in {"a", "b"}}
    \cup {<<"is_link", "">>, <<"is_root", "">>, <<"is_empty", "">>}

Predicate(q, h) ==
    CASE q[1] = "has_local_name" -> has_local_name(h, q[2])
      [] q[1] = "has_namespace" -> has_namespace(h, q[2])
      [] q[1] = "has_id" -> has_id(h, q[2])
      [] q[1] = "has_class" -> has_class(h, q[2])
      [] q[1] = "is_link" -> is_link(h)
      [] q[1] = "is_root" -> is_root(h)
      [] q[1] = "is_empty" -> is_empty(h)

AskPredicate ==
    \E h \in Handles, q \in PredicateQueries :
        /\ pc = "idle"
        /\ pc' = "returned"
        /\ call' = Queried(q[1], <<h, q[2]>>, Predicate(q, h))
        /\ log' = Predicate(q, h).cbs
        /\ UNCHANGED <<host, watch>>

\* The pseudo-classes of Table 1 and two that are not in it.
PseudoClasses == {"Active", "Focus", "Hover", "Enabled", "Disabled", "Checked",
                  "Indeterminate", "PlaceholderShown", "Target", "Visited", "Link",
                  "AnyLink", "FocusWithin", "Defined"}

MatchNonTsPseudoClass ==
    \E h \in Handles, pcl \in PseudoClasses :
        /\ pc = "idle"
        /\ pc' = "returned"
        /\ call' = Queried("match_non_ts_pseudo_class", <<h, pcl>>,
                           match_non_ts_pseudo_class(h, pcl))
        /\ log' = match_non_ts_pseudo_class(h, pcl).cbs
        /\ UNCHANGED <<host, watch>>

\* The capabilities without a host callback, with their arguments.
UnsupportedQueries ==
    {<<"attr_matches", a>> : a \in {"href", "title"}}
    \cup {<<"match_pseudo_element", pe>> : pe \in {"before", "after"}}
    \cup {<<q, n>> : q \in {"has_custom_state", "imported_part", "is_part"}, n \in {"x", "y"}}
    \cup {<<q, "">> : q \in {"parent_node_is_shadow_root", "containing_shadow_host",
                              "is_pseudo_element", "is_html_slot_element",
                              "add_element_unique_hashes"}}

Unsupported(q, h) ==
    CASE q[1] = "attr_matches" -> attr_matches(h, "", q[2], "Exists")
      [] q[1] = "match_pseudo_element" -> match_pseudo_element(h, q[2])
      [] q[1] = "has_custom_state" -> has_custom_state(h, q[2])
      [] q[1] = "imported_part" -> imported_part(h, q[2])
      [] q[1] = "is_part" -> is_part(h, q[2])
      [] q[1] = "parent_node_is_shadow_root" -> parent_node_is_shadow_root(h)
      [] q[1] = "containing_shadow_host" -> containing_shadow_host(h)
      [] q[1] = "is_pseudo_element" -> is_pseudo_element(h)
      [] q[1] = "is_html_slot_element" -> is_html_slot_element(h)
      [] q[1] = "add_element_unique_hashes" -> add_element_unique_hashes(h)

AskUnsupported ==
    \E h \in Handles, q \in UnsupportedQueries :
        /\ pc = "idle"
        /\ pc' = "returned"
        /\ call' = Queried(q[1], <<h, q[2]>>, Unsupported(q, h))
        /\ log' = Unsupported(q, h).cbs
        /\ UNCHANGED <<host, watch>>

IsSameType ==
    \E h \in Handles, other \in Handles :
        /\ pc = "idle"
        /\ pc' = "returned"
        /\ call' = Queried("is_same_type", <<h, other>>, is_same_type(h, other))
        /\ log' = is_same_type(h, other).cbs
        /\ UNCHANGED <<host, watch>>

\* The host changes an element's dynamic state between two calls.
HostSetState ==
    \E e \in Elements, f \in SUBSET Flags :
        /\ pc = "idle"
        /\ host[e] # f
        /\ host' = [host EXCEPT ![e] = f]
        /\ UNCHANGED <<pc, call, log, watch>>

\* The host takes the returned record; the core keeps nothing of the call.
TakeResult ==
    /\ pc = "returned"
    /\ pc' = "idle"
    /\ call' = NoCall
    /\ log' = <<>>
    /\ watch' = IF watch.seen /\ call.fn # "parse_selector"
                THEN [watch EXCEPT !.since = TRUE] ELSE watch
    /\ UNCHANGED host

Next ==
    \/ ParseStylesheet
    \/ ParseCssValue
    \/ EvaluateCalcExpression
    \/ ParseMediaQuery
    \/ GetComputedValue
    \/ ParseColor
    \/ ParseColorToNsColor
    \/ ParseSelector
    \/ MatchSelector
    \/ Opaque
    \/ Navigate
    \/ AskPredicate
    \/ MatchNonTsPseudoClass
    \/ AskUnsupported
    \/ IsSameType
    \/ HostSetState
    \/ TakeResult

Spec == Init /\ [][Next]_vars

\* The selector texts whose first result is kept: "div" and "div,".
WatchTexts == {<<"div">>, <<"div", ",">>}

\* The history keeps the result of a parse_selector call that has returned.
Observe ==
    /\ pc = "returned"
    /\ call.fn = "parse_selector"
    /\ call.outcome = "returned"
    /\ call.args[1] \in WatchTexts
    /\ ~watch.seen
    /\ watch' = [text |-> call.args[1], seen |-> TRUE,
                 success |-> call.ret.success, since |-> FALSE]
    /\ UNCHANGED <<pc, call, host, log>>

NextObs ==
    \/ Next
    \/ Observe

SpecObs == Init /\ [][NextObs]_vars

\* The history keeps the result of match_selector(":hover", 1).
ObserveState ==
    /\ pc = "returned"
    /\ call.fn = "match_selector"
    /\ call.args = << <<":hover">>, 1 >>
    /\ ~watch.seen
    /\ watch' = [text |-> call.args[1], seen |-> TRUE,
                 success |-> call.ret.matches, since |-> FALSE]
    /\ UNCHANGED <<pc, call, host, log>>

NextRead ==
    \/ Next
    \/ ObserveState

SpecRead == Init /\ [][NextRead]_vars

\* State snapshots: no flag, each known flag alone, both link flags, all
\* known flags, and a bit that is no known flag, alone and with a flag.
Snapshots ==
    {{}, {"VISITED", "UNVISITED"}, ElementStateFlags, {"BIT63"}, {"HOVER", "BIT63"},
     ElementStateFlags \cup {"BIT63"}}
    \cup {{f} : f \in ElementStateFlags}

\* One element of the document has a snapshot of Snapshots.
InitState ==
    /\ pc = "idle"
    /\ call = NoCall
    /\ host \in {[e \in Elements |-> IF e = el THEN snap ELSE {}] :
                     el \in Elements, snap \in Snapshots}
    /\ log = <<>>
    /\ watch = NoWatch

NextState ==
    \/ MatchNonTsPseudoClass
    \/ TakeResult

SpecState == InitState /\ [][NextState]_vars

(***************************************************************************)
(* The claims.                                                             *)
(***************************************************************************)
IsCall(fn) == call.fn = fn /\ call.outcome = "returned"

\* 0xFF000080 and 0xFF0000FF
xFF000080 == U32(255 * 256, 128)
xFF0000FF == U32(255 * 256, 255)

\* The sRGB form of the absolute colour a text parses to.
SrgbOf(text) == to_color_space_srgb(color_parse(text).val.color)

\* round(clamp01(c) * 255), halves away from zero.
ClampedByte(c) == Round(Clamp(c, 0, Unit) * ByteMax, Unit)

\* C1: parse_color_to_nscolor("rgba(255,0,0,0.5)") succeeds and returns
\* nscolor = 0xFF000080.  (The code returns 0x800000FF: alpha is the most
\* significant byte.)
C1_RgbaHalfAlphaIsFF000080 ==
    (call.fn = "parse_color_to_nscolor" /\ call.args = << <<"rgba", 255, 0, 0, Unit \div 2>> >>)
        => /\ call.outcome = "returned"
           /\ call.ret.success
           /\ call.ret.nscolor = xFF000080

C3_RedIsFF0000FF ==
    (call.fn = "parse_color_to_nscolor" /\ call.args[1] \in {<<"rgb", 255, 0, 0>>, <<"red">>})
        => /\ call.outcome = "returned"
           /\ call.ret.success
           /\ call.ret.nscolor = xFF0000FF

C3_Witness ==
    /\ IsCall("parse_color_to_nscolor")
    /\ call.args[1] = <<"rgb", 255, 0, 0>>
    /\ call.ret.nscolor = xFF0000FF

\* A component that asks something of the element itself.
Positive(c) ==
    c.kind \in {"LocalName", "ID", "Class", "NonTSPseudoClass", "AttributeInNoNamespaceExists"}

\* A selector with a positive requirement: a type, an id, a class or a
\* pseudo-class in its subject compound, or a combinator to a relative.
HasPositiveRequirement(sel) ==
    \/ Len(sel.compounds) > 1
    \/ \E j \in 1..Len(sel.compounds[1]) : Positive(sel.compounds[1][j])

IsStart(e) == e.cb = "matches_selector"
MinOf(S) == CHOOSE x \in S : \A y \in S : x <= y

\* C5: match_selector returns matches = true exactly when at least one
\* selector of the parsed list matches the element; the selectors are
\* evaluated in list order and evaluation stops at the first that matches (no
\* later selector is evaluated, no further host callback is issued); when none
\* matches the result is matches = false with an empty error_message; the
\* error_message is non-empty only when the text fails to parse.
C5_FirstMatchWins ==
    IsCall("match_selector") =>
        LET parsed == parse_selector_list(call.args[1])
            h == call.args[2]
        IN IF ~parsed.ok
           THEN ~call.ret.matches /\ call.ret.error_message # "" /\ log = <<>>
           ELSE LET list == parsed.val
                    M == {i \in 1..Len(list) : matches_selector(list[i], h).val}
                    last == IF M = {} THEN Len(list) ELSE MinOf(M)
                    starts == SelectSeq(log, IsStart)
                IN /\ call.ret.error_message = ""
                   /\ call.ret.matches = (M # {})
                   /\ Len(starts) = last
                   /\ \A i \in 1..last : starts[i].sel = i
                   /\ \A k \in 1..Len(log) : log[k].sel <= last
                   /\ \A k \in 2..Len(log) : log[k - 1].sel <= log[k].sel

\* A list of three whose second selector is the first to match: the third
\* was not evaluated.
C5_Witness ==
    /\ IsCall("match_selector")
    /\ call.args = <<<<"#x", ",", "*", ",", "div">>, 2>>
    /\ call.ret.matches
    /\ Len(SelectSeq(log, IsStart)) = 2

\* How parse_color fails on a text, if it does.
FailureClass(text) ==
    LET p == color_parse(text) IN
    IF ~p.ok THEN "grammar"
    ELSE IF p.val.kind = "CurrentColor" THEN "currentColor"
    ELSE IF p.val.kind # "Absolute" THEN "unresolved"
    ELSE "none"

\* C6: parse_color fails (success = false) with a non-empty error_message
\* for currentColor and for every other non-absolute colour; the messages of
\* the three kinds of failure (currentColor, another context-dependent
\* colour, a grammar error) are pairwise distinct.
C6_ColorFailures ==
    IsCall("parse_color") =>
        LET cls == FailureClass(call.args[1]) IN
        /\ call.ret.success = (cls = "none")
        /\ cls # "none" => call.ret.error_message # ""
        /\ \A t \in ColorTexts :
              (cls # "none" /\ FailureClass(t) \notin {"none", cls})
                  => parse_color(t).ret.error_message # call.ret.error_message

C6_Witness ==
    /\ IsCall("parse_color")
    /\ call.args = << <<"color-mix(in srgb, red, blue)">> >>
    /\ ~call.ret.success
    /\ call.ret.error_message = UnresolvedMsg

\* C7: evaluate_calc_expression first parses a calc() function and succeeds
\* with the leaf's value if the node is a single Number or Percentage leaf,
\* and only then; otherwise it parses the trimmed input as a plain decimal
\* number; otherwise it fails with value 0.  "42" gives 42, "calc(5)" gives
\* 5, "calc(1 + 2)" fails.
NumericLeaf(expr) ==
    LET p == parse_calc_function(expr) IN
    p.ok /\ p.val.node = "Leaf" /\ p.val.kind \in {"Number", "Percentage"}

C7_CalcOrder ==
    IsCall("evaluate_calc_expression") =>
        LET expr == call.args[1]
            f == parse_f32(trim(expr))
        IN /\ NumericLeaf(expr) =>
                  call.ret = CalcResult(parse_calc_function(expr).val.value, TRUE)
           /\ (~NumericLeaf(expr) /\ f.ok) => call.ret = CalcResult(f.val, TRUE)
           /\ (~NumericLeaf(expr) /\ ~f.ok) => call.ret = CalcResult(0, FALSE)
           /\ expr = <<"4", "2">> => call.ret = CalcResult(42 * ValScale, TRUE)
           /\ expr = <<"calc(", "5", ")">> => call.ret = CalcResult(5 * ValScale, TRUE)
           /\ expr = <<"calc(", "1", " + ", "2", ")">> => call.ret = CalcResult(0, FALSE)

C7_Witness ==
    /\ IsCall("evaluate_calc_expression")
    /\ call.args = << <<"calc(", "1", " + ", "2", ")">> >>
    /\ parse_calc_function(call.args[1]).ok
    /\ ~call.ret.success

\* The functions of the boundary that return a result record.
BoundaryFns == {"parse_stylesheet", "parse_css_value", "evaluate_calc_expression",
                "parse_media_query", "get_computed_value", "parse_selector",
                "match_selector", "parse_color", "parse_color_to_nscolor"}

\* C8 as stated: every result record carries an explicit success flag and
\* an error string.
C8_FlagAndMessage ==
    (call.fn \in BoundaryFns /\ call.outcome = "returned") =>
        {"success", "error_message"} \subseteq DOMAIN call.ret

\* C8, amended: the records of parse_stylesheet, parse_media_query,
\* parse_selector, parse_color and parse_color_to_nscolor carry a success
\* flag and an error string; those of parse_css_value, get_computed_value
\* and evaluate_calc_expression carry a success flag and a value but no
\* error string; that of match_selector carries the boolean matches and an
\* error string but no success flag.
C8_RecordFields ==
    (call.fn \in BoundaryFns /\ call.outcome = "returned") =>
        LET fields == DOMAIN call.ret IN
        /\ call.fn \in {"parse_stylesheet", "parse_media_query", "parse_selector",
                        "parse_color", "parse_color_to_nscolor"}
               => {"success", "error_message"} \subseteq fields
        /\ call.fn \in {"parse_css_value", "get_computed_value", "evaluate_calc_expression"}
               => fields = {"value", "success"}
        /\ call.fn = "match_selector" => fields = {"matches", "error_message"}

C8_Witness ==
    /\ IsCall("match_selector")
    /\ call.ret.error_message # ""
    /\ "success" \notin DOMAIN call.ret

\* Whether the parser a call runs rejects the call's text.
GrammarError(fn, args) ==
    CASE fn \in {"parse_selector", "match_selector"} -> ~parse_selector_list(args[1]).ok
      [] fn \in {"parse_color", "parse_color_to_nscolor"} -> ~color_parse(args[1]).ok
      [] fn = "parse_media_query" -> ~MediaQuery_parse(args[1]).ok
      [] fn = "parse_css_value" -> ~expect_no_error_token(args[1], 1, 0).ok
      [] fn = "evaluate_calc_expression" ->
             ~parse_calc_function(args[1]).ok /\ ~parse_f32(trim(args[1])).ok
      [] fn = "parse_stylesheet" -> ~Url_parse(args[2]).ok
      [] OTHER -> FALSE

\* Whether a result record reports a failure.
IsFailure(fn, ret) ==
    IF fn = "match_selector" THEN ~ret.matches /\ ret.error_message # ""
    ELSE ~ret.success /\ ("error_message" \in DOMAIN ret => ret.error_message # "")

\* C9: every exported function returns a value on every input and never
\* aborts the process (the expect in opaque() and the unwraps of the URL
\* literals are never hit), and a grammar error is returned as a failure
\* value.
C9_Total ==
    pc = "returned" =>
        /\ call.outcome = "returned"
        /\ GrammarError(call.fn, call.args) => IsFailure(call.fn, call.ret)

C9_Witness ==
    /\ pc = "returned"
    /\ call.fn = "opaque"
    /\ call.args = <<0>>
    /\ call.outcome = "returned"

C11_ColorPassedThrough ==
    /\ (IsCall("parse_color") /\ call.ret.success) =>
           LET c == color_parse(call.args[1]).val.color IN
           /\ \E i \in 1..14 : ColorSpaces[i] = call.ret.color_space
           /\ call.ret.color_space = c.color_space
           /\ call.ret.components.c0 = c.components[1]
           /\ call.ret.components.c1 = c.components[2]
           /\ call.ret.components.c2 = c.components[3]
           /\ call.ret.alpha = c.alpha
    /\ (IsCall("parse_color") /\ call.args = << <<"hsla(-300, 100%, 37.5%, -3)">> >>)
           => call.ret.success
    /\ (IsCall("parse_color_to_nscolor") /\ call.ret.success) =>
           LET a == color_parse(call.args[1]).val.color.alpha IN
           /\ a <= 0 => call.ret.nscolor.hi \div 256 = 0
           /\ a >= Unit => call.ret.nscolor.hi \div 256 = ByteMax

\* parse_color has returned a colour that is not in sRGB and whose alpha is
\* below 0.
C11_Witness ==
    /\ IsCall("parse_color")
    /\ call.ret.success
    /\ call.ret.color_space = "Hsl"
    /\ call.ret.alpha < 0
    /\ call.ret.components.c0 > Unit

\* C12: opaque() gives different identities to every two distinct non-null
\* handles, real handles passing their value through, and gives the null
\* handle a non-null sentinel that differs from the identity of every real
\* handle.  (The code's sentinel is 1, the identity of the real handle 1.)
C12_OpaqueDistinguishes ==
    IsCall("opaque") =>
        LET h == call.args[1] IN
        /\ call.ret.identity # 0
        /\ h # 0 => call.ret.identity = h
        /\ \A other \in Handles \ {h} : opaque(other).ret.identity # call.ret.identity

\* The handle the host's navigation callback of a query answers with.
HostAnswer(q, h) ==
    CASE q = "parent_element" -> get_parent_element(h)
      [] q = "prev_sibling_element" -> get_prev_sibling_element(h)
      [] q = "next_sibling_element" -> get_next_sibling_element(h)
      [] q = "first_element_child" -> get_first_element_child(h)

\* C13: parent_element, prev_sibling_element, next_sibling_element and
\* first_element_child return None when the host's navigation callback
\* answers with the handle 0, and Some(adapter around h) when it answers
\* with a handle h other than 0; a 0 is never wrapped and never an error.
C13_ZeroIsNoRelative ==
    (pc = "returned" /\ call.fn \in NavigationQueries) =>
        LET answer == HostAnswer(call.fn, call.args[1]) IN
        /\ call.outcome = "returned"
        /\ answer = 0 => call.ret.val = None
        /\ answer # 0 => call.ret.val = Some(answer)
        /\ call.ret.val.ok => call.ret.val.val # 0

\* A real element without a child: the host answered 0.
C13_Witness ==
    /\ IsCall("first_element_child")
    /\ call.args[1] # 0
    /\ log[1] = CB("get_first_element_child", call.args[1], "")
    /\ ~call.ret.val.ok

\* The flag of Table 1 for a pseudo-class.
Table1 == [Active |-> "ACTIVE", Focus |-> "FOCUS", Hover |-> "HOVER",
           Enabled |-> "ENABLED", Disabled |-> "DISABLED", Checked |-> "CHECKED",
           Indeterminate |-> "INDETERMINATE", PlaceholderShown |-> "PLACEHOLDER_SHOWN",
           Target |-> "URLTARGET", Visited |-> "VISITED", Link |-> "UNVISITED"]

\* C14: match_non_ts_pseudo_class(P) on h is the test of Table 1's flag for
\* P in the host's snapshot for h; :any-link holds when VISITED or UNVISITED
\* is set; a pseudo-class that is not in the table is false whatever the
\* snapshot; a bit that is no known flag changes no result.
C14_Table1 ==
    IsCall("match_non_ts_pseudo_class") =>
        LET h == call.args[1]
            P == call.args[2]
            snapshot == IF h = 0 THEN {} ELSE host[h]
        IN /\ P \in DOMAIN Table1 => call.ret.val = (Table1[P] \in snapshot)
           /\ P = "AnyLink" =>
                  call.ret.val = ("VISITED" \in snapshot \/ "UNVISITED" \in snapshot)
           /\ P \notin DOMAIN Table1 \cup {"AnyLink"} => call.ret.val = FALSE
           /\ P \in DOMAIN Table1 =>
                  call.ret.val = (Table1[P] \in (snapshot \cap ElementStateFlags))

\* :any-link on an element whose snapshot has VISITED and not UNVISITED.
C14_Witness ==
    /\ IsCall("match_non_ts_pseudo_class")
    /\ call.args = <<1, "AnyLink">>
    /\ host[1] = {"VISITED"}
    /\ call.ret.val

\* The number of callbacks of the log that ask for the element's state.
StateReads == Len(SelectSeq(log, LAMBDA e : e.cb = "get_element_state"))

\* C15: a pseudo-class query reads the element's state from the host anew:
\* match_selector(":hover", e) and match_non_ts_pseudo_class(Hover) on e
\* issue one get_element_state callback and give the flag's value in the
\* host's state at the time of the call, also after an earlier call gave
\* another value and the host changed the flag.
C15_StateReadThrough ==
    /\ (IsCall("match_selector") /\ call.args[1] = <<":hover">> /\ call.args[2] # 0) =>
           /\ call.ret.matches = ("HOVER" \in host[call.args[2]])
           /\ StateReads = 1
    /\ (IsCall("match_non_ts_pseudo_class") /\ call.args[1] # 0) =>
           /\ call.args[2] = "Hover" => call.ret.val = ("HOVER" \in host[call.args[1]])
           /\ StateReads = 1

\* An earlier match_selector(":hover", 1) matched, the host cleared the flag,
\* and this call does not match.
C15_Witness ==
    /\ IsCall("match_selector")
    /\ call.args = << <<":hover">>, 1 >>
    /\ watch.seen
    /\ watch.success
    /\ ~call.ret.matches

\* The queries with a host callback of their own, and those without.
OneCallbackQueries == {"has_local_name", "has_namespace", "has_id", "has_class",
                       "is_link", "is_root", "is_empty", "match_non_ts_pseudo_class"}
NoCallbackQueries == {"attr_matches", "match_pseudo_element", "has_custom_state",
                      "imported_part", "is_part", "parent_node_is_shadow_root",
                      "containing_shadow_host", "is_pseudo_element",
                      "is_html_slot_element", "add_element_unique_hashes",
                      "is_same_type", "opaque"}

\* C16 as stated: a supported capability query (navigation included) issues
\* exactly one host callback and an unsupported one issues none.
C16_OneOrZeroCallbacks ==
    pc = "returned" =>
        /\ call.fn \in NavigationQueries \cup OneCallbackQueries => Len(log) = 1
        /\ call.fn \in NoCallbackQueries => Len(log) = 0

\* C16, amended: parent_element, prev_sibling_element, next_sibling_element
\* and first_element_child issue exactly two host callbacks, the navigation
\* callback on the element and then is_element_null on the handle it
\* answered with; has_local_name, has_namespace, has_id, has_class, is_link,
\* is_root, is_empty and match_non_ts_pseudo_class issue exactly one, on the
\* element; the unsupported capabilities, is_same_type and opaque issue
\* none.
C16_CallbacksPerQuery ==
    pc = "returned" =>
        /\ call.fn \in NavigationQueries =>
               /\ Len(log) = 2
               /\ log[1].cb \in {"get_parent_element", "get_prev_sibling_element",
                                 "get_next_sibling_element", "get_first_element_child"}
               /\ log[1].h = call.args[1]
               /\ log[2] = CB("is_element_null", HostAnswer(call.fn, call.args[1]), "")
        /\ call.fn \in OneCallbackQueries =>
               /\ Len(log) = 1
               /\ log[1].h = call.args[1]
               /\ log[1].cb # "is_element_null"
        /\ call.fn \in NoCallbackQueries => Len(log) = 0

\* The parent of a real element was asked for: two callbacks.
C16_Witness ==
    /\ IsCall("parent_element")
    /\ call.args[1] # 0
    /\ Len(log) = 2
    /\ log[1].cb = "get_parent_element"
    /\ log[2].cb = "is_element_null"

\* C17: the adapter never fails, and for every handle, every argument and
\* every host state attr_matches, match_pseudo_element,
\* parent_node_is_shadow_root, is_pseudo_element, is_html_slot_element,
\* has_custom_state, is_part and add_element_unique_hashes return false and
\* containing_shadow_host and imported_part return None; a selector whose
\* match requires an attribute condition does not match through it.
C17_UnsupportedIsConservative ==
    /\ (pc = "returned" /\ call.fn \in NoCallbackQueries \cup OneCallbackQueries
                                       \cup NavigationQueries)
           => call.outcome = "returned"
    /\ (pc = "returned" /\ call.fn \in {"attr_matches", "match_pseudo_element",
                                        "parent_node_is_shadow_root", "is_pseudo_element",
                                        "is_html_slot_element", "has_custom_state",
                                        "is_part", "add_element_unique_hashes"})
           => call.ret.val = FALSE
    /\ (pc = "returned" /\ call.fn \in {"containing_shadow_host", "imported_part"})
           => call.ret.val = None
    /\ (IsCall("match_selector") /\ call.args[1] \in {<<"[href]">>, <<"div", "[href]">>})
           => (~call.ret.matches /\ call.ret.error_message = "")
    /\ (IsCall("match_selector") /\ call.args[1] = <<"[href]", ",", "span">>)
           => call.ret.matches = (call.args[2] # 0 /\ LocalName(call.args[2]) = "span")

\* div[href] against a div whose state the host has set: the type matched
\* and the attribute condition did not.
C17_Witness ==
    /\ IsCall("match_selector")
    /\ call.args = << <<"div", "[href]">>, 1 >>
    /\ host[1] # {}
    /\ \E k \in 1..Len(log) : log[k].cb = "element_has_local_name"
    /\ ~call.ret.matches

\* C18: is_same_type(a, b) is true exactly when a and b are the same handle
\* value: it is true of (h, h) for every handle, 0 included, symmetric and
\* transitive, and it asks the host nothing.
C18_SameTypeIsSameHandle ==
    /\ IsCall("is_same_type") =>
           /\ call.ret.val = (call.args[1] = call.args[2])
           /\ log = <<>>
    /\ \A a \in Handles : is_same_type(a, a).val
    /\ \A a \in Handles, b \in Handles : is_same_type(a, b).val = is_same_type(b, a).val
    /\ \A a \in Handles, b \in Handles, c \in Handles :
           (is_same_type(a, b).val /\ is_same_type(b, c).val) => is_same_type(a, c).val

C18_Witness ==
    /\ IsCall("is_same_type")
    /\ call.args = <<0, 0>>
    /\ call.ret.val

=============================================================================
